---- MODULE Spec2Model ----
(***************************************************************************)
(* Model of helix/analysis/structure/utils.py: helper functions over       *)
(* Bio.PDB structures (residue proximity query, residue lookup, loading a  *)
(* structure from a path or from raw PDB text, fetching one over HTTP).    *)
(*                                                                         *)
(* A structure is the hierarchy model -> chain -> residue -> atom.  It is  *)
(* represented as a function from the full ids of its residues to the     *)
(* sequence of the coordinates of the residue's atoms (child_list order); *)
(* a model or a chain without residues is not represented.                *)
(*                                                                         *)
(* Bio.PDB keeps coordinates in single precision.  The centroid of a       *)
(* residue is a chain of single-precision additions and one division, and  *)
(* the KD tree compares squared distances in double precision.  Both are   *)
(* computed here bit for bit: a floating-point number is a pair of an      *)
(* integer m and an exponent e standing for m / 2^e, and the arithmetic is *)
(* done on naturals of any size, rounded to nearest, ties to even.         *)
(***************************************************************************)
EXTENDS Integers, Sequences, FiniteSets

VARIABLES structure, files, call

vars == <<structure, files, call>>

(***************************************************************************)
(* Bounds of the model.                                                    *)
(***************************************************************************)
\* atoms in a structure drawn for the proximity query
MaxAtoms == 3
\* largest whole search radius tried
MaxRadius == 2
\* residues in a structure drawn for the residue lookup
MaxResidues == 3
\* lines in a PDB text (a file's content, a raw string, a response body)
MaxLines == 3

Models == {0, 1}
Chains == {"A", "B"}
\* hetero field of a residue id: " " for a standard residue, "H" for a ligand
HetFlags == {" ", "H"}
SeqNums == {1, 2}

\* full id of a residue inside its structure
ResidueKeys == [model : Models, chain : Chains, het : HetFlags, seq : SeqNums]

(***************************************************************************)
(* Outcomes of a call: a value returned or an exception raised.            *)
(***************************************************************************)
NoValue == [none |-> TRUE]
Returned(v) == [status |-> "returned", error |-> "", value |-> v]
Raised(e) == [status |-> "raised", error |-> e, value |-> NoValue]

(***************************************************************************)
(* Entities.  A residue object is identified by the structure that owns it *)
(* and its full id there; "S" is the structure under query, "other" is any *)
(* residue object that is not part of it.                                  *)
(***************************************************************************)
\* the residue of the structure s with full id k
ResidueOf(s, k) == [owner |-> "S", id |-> k, atoms |-> s[k]]

\* the atoms of the first model only
get_atoms_first_model(s) ==
    UNION {{[get_parent |-> ResidueOf(s, k), index |-> i, coord |-> s[k][i]] :
                i \in 1..Len(s[k])} : k \in {x \in DOMAIN s : x.model = 0}}

\* structure.get_atoms(): every atom of every model, with its parent residue
get_atoms(s) ==
    UNION {{[get_parent |-> ResidueOf(s, k), index |-> i, coord |-> s[k][i]] :
                i \in 1..Len(s[k])} : k \in DOMAIN s}

(***************************************************************************)
(* Naturals of any size, as sequences of limbs of 15 bits, least          *)
(* significant first and without leading zero limb: the integers of TLC   *)
(* stop at 2^31, below the 53 bits of a double precision float.           *)
(***************************************************************************)
Base == 2^15

Abs(n) == IF n < 0 THEN -n ELSE n

Max(a, b) == IF a >= b THEN a ELSE b

RECURSIVE Trim(_)
Trim(x) ==
    IF x # <<>> /\ x[Len(x)] = 0 THEN Trim(SubSeq(x, 1, Len(x) - 1)) ELSE x

RECURSIVE Big(_)
\* the natural n < 2^31
Big(n) == IF n = 0 THEN <<>> ELSE <<n % Base>> \o Big(n \div Base)

Digit(x, i) == IF i <= Len(x) THEN x[i] ELSE 0

RECURSIVE AddFrom(_, _, _, _)
AddFrom(x, y, i, carry) ==
    IF i > Len(x) /\ i > Len(y) THEN (IF carry = 0 THEN <<>> ELSE <<carry>>)
    ELSE LET t == Digit(x, i) + Digit(y, i) + carry
         IN  <<t % Base>> \o AddFrom(x, y, i + 1, t \div Base)

Add(x, y) == AddFrom(x, y, 1, 0)

RECURSIVE SubFrom(_, _, _, _)
SubFrom(x, y, i, borrow) ==
    IF i > Len(x) THEN <<>>
    ELSE LET t == x[i] - Digit(y, i) - borrow
         IN  <<t % Base>> \o SubFrom(x, y, i + 1, IF t < 0 THEN 1 ELSE 0)

\* x - y, for x >= y
Sub(x, y) == Trim(SubFrom(x, y, 1, 0))

RECURSIVE CmpFrom(_, _, _)
CmpFrom(x, y, i) ==
    IF i = 0 THEN 0
    ELSE IF x[i] < y[i] THEN -1
    ELSE IF x[i] > y[i] THEN 1
    ELSE CmpFrom(x, y, i - 1)

\* -1, 0 or 1 as x < y, x = y or x > y
Cmp(x, y) ==
    IF Len(x) < Len(y) THEN -1
    ELSE IF Len(x) > Len(y) THEN 1
    ELSE CmpFrom(x, y, Len(x))

RECURSIVE MulDigitFrom(_, _, _, _)
MulDigitFrom(x, d, i, carry) ==
    IF i > Len(x) THEN (IF carry = 0 THEN <<>> ELSE <<carry>>)
    ELSE LET t == x[i] * d + carry
         IN  <<t % Base>> \o MulDigitFrom(x, d, i + 1, t \div Base)

\* x * d, for a limb d
MulDigit(x, d) == Trim(MulDigitFrom(x, d, 1, 0))

RECURSIVE Mul(_, _)
Mul(x, y) ==
    IF y = <<>> \/ x = <<>> THEN <<>>
    ELSE Add(MulDigit(x, Head(y)),
             LET rest == Mul(x, Tail(y)) IN IF rest = <<>> THEN <<>> ELSE <<0>> \o rest)

\* x * 2^s
ShiftLeft(x, s) ==
    IF x = <<>> THEN <<>>
    ELSE [i \in 1..(s \div 15) |-> 0] \o MulDigit(x, 2^(s % 15))

RECURSIVE DivDigit(_, _)
\* quotient and remainder of x by the limb d > 0
DivDigit(x, d) ==
    IF x = <<>> THEN [q |-> <<>>, r |-> 0]
    ELSE LET high == DivDigit(Tail(x), d)
             t == high.r * Base + Head(x)
         IN  [q |-> <<t \div d>> \o high.q, r |-> t % d]

\* the integer part of x / 2^s
ShiftRight(x, s) ==
    IF s \div 15 >= Len(x) THEN <<>>
    ELSE Trim(DivDigit(SubSeq(x, s \div 15 + 1, Len(x)), 2^(s % 15)).q)

RECURSIVE BitLen(_)
\* the number of bits of the natural n < 2^31
BitLen(n) == IF n = 0 THEN 0 ELSE 1 + BitLen(n \div 2)

\* the number of bits of x
BigBitLen(x) == IF x = <<>> THEN 0 ELSE 15 * (Len(x) - 1) + BitLen(x[Len(x)])

(***************************************************************************)
(* Floating point.  A float is the record [neg, m, e] of a sign, a natural *)
(* m and an integer e, and stands for +-m / 2^e.  atom.coord is an array   *)
(* of single precision floats (24 significant bits); a Python float and    *)
(* the numbers of the KD tree are double precision (53 bits).  Every       *)
(* operation yields the float nearest to the exact result, ties to even;   *)
(* no value here is large or small enough to leave the normal range.       *)
(***************************************************************************)
\* the float m / 2^e, for an integer m of less than 31 bits
Float(m, e) == [neg |-> m < 0, m |-> Big(Abs(m)), e |-> e]

Zero == [neg |-> FALSE, m |-> <<>>, e |-> 0]

\* x / 2^k rounded to an integer, half to even; inexact tells that x is the
\* integer part of a value that is larger
RoundShift(x, k, inexact) ==
    LET q == ShiftRight(x, k)
        c == Cmp(Sub(x, ShiftLeft(q, k)), ShiftLeft(<<1>>, k - 1))
    IN  IF c > 0 \/ (c = 0 /\ (inexact \/ Digit(q, 1) % 2 = 1)) THEN Add(q, <<1>>)
        ELSE q

\* the float of bits significant bits nearest to v (to v and a little more
\* when inexact)
Round(v, bits, inexact) ==
    LET k == BigBitLen(v.m) - bits
    IN  IF k <= 0 THEN v
        ELSE [neg |-> v.neg, m |-> RoundShift(v.m, k, inexact), e |-> v.e - k]

\* a + b, exactly
Sum(a, b) ==
    LET e == Max(a.e, b.e)
        x == ShiftLeft(a.m, e - a.e)
        y == ShiftLeft(b.m, e - b.e)
    IN  IF a.neg = b.neg THEN [neg |-> a.neg, m |-> Add(x, y), e |-> e]
        ELSE IF Cmp(x, y) >= 0 THEN [neg |-> a.neg, m |-> Sub(x, y), e |-> e]
        ELSE [neg |-> b.neg, m |-> Sub(y, x), e |-> e]

Minus(a) == [neg |-> ~a.neg, m |-> a.m, e |-> a.e]

\* a * b, exactly
Product(a, b) == [neg |-> a.neg # b.neg, m |-> Mul(a.m, b.m), e |-> a.e + b.e]

\* a > 0
Positive(a) == ~a.neg /\ a.m # <<>>

\* a <= b
AtMost(a, b) ==
    LET d == Sum(a, Minus(b)) IN d.m = <<>> \/ d.neg

\* a + b in single precision
Float32Add(a, b) == Round(Sum(a, b), 24, FALSE)

\* a / n in single precision, n a positive integer below 2^15 (a float32
\* array divided by a Python int): the quotient to 26 bits or more, then
\* rounded with what the division left
Float32Div(a, n) ==
    LET s == Max(0, 26 + BitLen(n) - BigBitLen(a.m))
        d == DivDigit(ShiftLeft(a.m, s), n)
    IN  IF a.m = <<>> THEN Zero
        ELSE Round([neg |-> a.neg, m |-> Trim(d.q), e |-> a.e + s], 24, d.r # 0)

\* the operations of the KD tree, in double precision
Float64Sub(a, b) == Round(Sum(a, Minus(b)), 53, FALSE)
Float64Add(a, b) == Round(Sum(a, b), 53, FALSE)
Float64Mul(a, b) == Round(Product(a, b), 53, FALSE)

\* KDTree_dist(coord1, coord2): dif = coord1[i] - coord2[i] and
\* sum += dif * dif over the three axes
KDTree_dist(coord1, coord2) ==
    LET dif == [i \in 1..3 |-> Float64Sub(coord1[i], coord2[i])]
    IN  Float64Add(Float64Add(Float64Add(Zero, Float64Mul(dif[1], dif[1])),
                              Float64Mul(dif[2], dif[2])),
                   Float64Mul(dif[3], dif[3]))

(***************************************************************************)
(* The proximity query.                                                    *)
(***************************************************************************)
RECURSIVE SumCoords(_, _)
\* sum(atom.coord for atom in target_atoms): the additions from the left,
\* from start, each in single precision, component by component
SumCoords(coords, start) ==
    IF coords = <<>> THEN start
    ELSE LET c == Head(coords)
         IN  SumCoords(Tail(coords), [i \in 1..3 |-> Float32Add(start[i], c[i])])

\* target_center = sum(atom.coord for atom in target_atoms) / len(target_atoms),
\* for a target with atoms
target_center(target_atoms) ==
    LET sum == SumCoords(target_atoms, [i \in 1..3 |-> Zero])
    IN  [i \in 1..3 |-> Float32Div(sum[i], Len(target_atoms))]

\* NeighborSearch(atoms): the index over the atoms' coordinates.  Bio.PDB builds
\* an N x 3 array and reads its second dimension, which an empty atom list
\* does not have
NeighborSearch(atoms) ==
    IF atoms = {} THEN Raised("IndexError") ELSE Returned(atoms)

\* radius * radius, in double precision
radius_sq(radius) == Float64Mul(radius, radius)

\* a search hitting only the atoms at exactly the radius
search_shell(atoms, center, radius) ==
    IF ~Positive(radius) THEN Raised("ValueError")
    ELSE Returned({a \in atoms :
            LET r == KDTree_dist(center, a.coord)
            IN  AtMost(r, radius_sq(radius)) /\ AtMost(radius_sq(radius), r)})

\* a search over the open ball
search_open(atoms, center, radius) ==
    IF ~Positive(radius) THEN Raised("ValueError")
    ELSE Returned({a \in atoms :
            ~AtMost(radius_sq(radius), KDTree_dist(center, a.coord))})

\* neighbor_search.search(center, radius): Bio.PDB's KD tree refuses a radius
\* that is not positive ("Radius must be positive."), and otherwise reports the
\* atoms with KDTree_dist(center, coord) <= radius * radius
search(atoms, center, radius) ==
    IF ~Positive(radius) THEN Raised("ValueError")
    ELSE Returned({a \in atoms :
            AtMost(KDTree_dist(center, a.coord), radius_sq(radius))})

\* a query that leaves the target residue out of its result
get_residues_excluding_target(s, target_residue, distance) ==
    LET neighbor_search == NeighborSearch(get_atoms(s))
        target_atoms == target_residue.atoms
        nearby_atoms == search(neighbor_search.value, target_center(target_atoms), distance)
    IN  IF neighbor_search.status = "raised" THEN neighbor_search
        ELSE IF Len(target_atoms) = 0 THEN Raised("ZeroDivisionError")
        ELSE IF nearby_atoms.status = "raised" THEN nearby_atoms
        ELSE Returned({a.get_parent : a \in nearby_atoms.value} \ {target_residue})

\* get_residues_within_distance(structure, target_residue, distance), line by
\* line: the index over all atoms, the centroid of the target's atoms (0 / 0 for
\* a target without atoms), the search, the set of the parents
get_residues_within_distance(s, target_residue, distance) ==
    LET neighbor_search == NeighborSearch(get_atoms(s))
        target_atoms == target_residue.atoms
        nearby_atoms == search(neighbor_search.value, target_center(target_atoms), distance)
    IN  IF neighbor_search.status = "raised" THEN neighbor_search
        ELSE IF Len(target_atoms) = 0 THEN Raised("ZeroDivisionError")
        ELSE IF nearby_atoms.status = "raised" THEN nearby_atoms
        ELSE Returned({a.get_parent : a \in nearby_atoms.value})

(***************************************************************************)
(* Residue lookup.                                                         *)
(***************************************************************************)
\* Chain.__getitem__ turns an integer id n into the residue id (" ", n, " ")
translate_id(residue_id) ==
    IF residue_id.int THEN [het |-> " ", seq |-> residue_id.seq]
    ELSE [het |-> residue_id.het, seq |-> residue_id.seq]

\* a lookup that takes residue_id for a zero-based position in the chain
get_residue_zero_based(s, chain_id, residue_id) ==
    LET rid == translate_id(residue_id)
        key == [model |-> 0, chain |-> chain_id, het |-> rid.het, seq |-> rid.seq + 1]
    IN  IF key \notin DOMAIN s THEN Raised("KeyError")
        ELSE Returned(ResidueOf(s, key))

\* a lookup that falls back to the first residue of the chain
get_residue_lenient(s, chain_id, residue_id) ==
    LET rid == translate_id(residue_id)
        inchain == {k \in DOMAIN s : k.model = 0 /\ k.chain = chain_id}
        key == [model |-> 0, chain |-> chain_id, het |-> rid.het, seq |-> rid.seq]
    IN  IF inchain = {} THEN Raised("KeyError")
        ELSE IF key \in DOMAIN s THEN Returned(ResidueOf(s, key))
        ELSE Returned(ResidueOf(s, CHOOSE k \in inchain : TRUE))

\* get_residue_by_position(structure, chain_id, residue_id)
get_residue_by_position(s, chain_id, residue_id) ==
    LET rid == translate_id(residue_id)
        key == [model |-> 0, chain |-> chain_id, het |-> rid.het, seq |-> rid.seq]
    IN  IF \A k \in DOMAIN s : k.model # 0
        THEN Raised("KeyError")          \* structure[0]
        ELSE IF \A k \in DOMAIN s : ~(k.model = 0 /\ k.chain = chain_id)
        THEN Raised("KeyError")          \* structure[0][chain_id]
        ELSE IF key \notin DOMAIN s
        THEN Raised("KeyError")          \* chain[residue_id]
        ELSE Returned(ResidueOf(s, key))


(***************************************************************************)
(* The structures and the arguments the functions are called with.         *)
(***************************************************************************)
EmptyStructure == [k \in {} |-> <<>>]

\* the structure s with one more atom, at coord, in the residue key
AddAtom(s, key, coord) ==
    [k \in DOMAIN s \cup {key} |->
        IF k = key
        THEN (IF key \in DOMAIN s THEN Append(s[key], coord) ELSE <<coord>>)
        ELSE s[k]]

Origin == <<Float(0, 0), Float(0, 0), Float(0, 0)>>

\* positions of the atoms (in Angstrom), as single precision holds them: whole
\* ones, and two made of -0.3, 0.5 and 0.7, of which 0.3 and 0.7 are no binary
\* fractions and are kept as 5033165 / 2^24 and 11744051 / 2^24
Coords ==
    {Origin,
     <<Float(0, 0), Float(0, 0), Float(2, 0)>>,
     <<Float(-5033165, 24), Float(1, 1), Float(11744051, 24)>>,
     <<Float(-5033165, 24), Float(11744051, 24), Float(1, 1)>>}

\* radii between the whole ones: 44739243 / 2^26 = 0.6666666716..., which lies
\* between 2/3 and the single precision float nearest to 2/3; and
\* 0.14142134780793983 (0x1.21a183fe54ab9p-3), the least double precision float
\* above half the distance between the last two positions
FineRadii ==
    {Float(44739243, 26),
     [neg |-> FALSE, m |-> <<19129, 32714, 26720, 144>>, e |-> 55]}

\* the distances asked for (a Python float)
Radii == {Float(k, 0) : k \in 0..MaxRadius} \cup FineRadii

\* residues of the structures drawn for the proximity query: one residue in
\* each of two models
QueryKeys == {k \in ResidueKeys : k.chain = "A" /\ k.het = " " /\ k.seq = 1}

RECURSIVE StructuresOfAtMost(_)
\* the structures of at most n atoms over QueryKeys and Coords
StructuresOfAtMost(n) ==
    IF n = 0 THEN {EmptyStructure}
    ELSE LET smaller == StructuresOfAtMost(n - 1)
         IN  smaller \cup {AddAtom(s, k, c) : s \in smaller, k \in QueryKeys, c \in Coords}

QueryStructures == StructuresOfAtMost(MaxAtoms)

\* structures drawn for the residue lookup: any residues, one atom each
LookupStructures ==
    {[k \in D |-> <<Origin>>] :
        D \in {X \in SUBSET ResidueKeys : Cardinality(X) <= MaxResidues}}

\* a residue object that is not part of the structure under query (built by
\* hand, or taken from another structure): no atom, or one atom
ForeignKey == [model |-> 0, chain |-> "L", het |-> "H", seq |-> 1]
ForeignResidues ==
    {[owner |-> "other", id |-> ForeignKey, atoms |-> as] : as \in {<<>>, <<Origin>>}}

Targets(s) == {ResidueOf(s, k) : k \in DOMAIN s} \cup ForeignResidues

\* chain ids asked for: those of the structures, and one no structure has
ChainIds == Chains \cup {"Z"}
\* residue ids asked for: an integer, or the tuple (hetero field, number)
ResidueIds ==
    {[int |-> TRUE, het |-> "", seq |-> n] : n \in SeqNums \cup {0}}
    \cup {[int |-> FALSE, het |-> h, seq |-> n] : h \in HetFlags, n \in SeqNums}

\* a call: the function, its arguments, where it stands ("done" once it has
\* returned or raised), its outcome and the log of what it did
NoCall == [op |-> "none", args |-> NoValue, pc |-> "idle", out |-> NoValue, trace |-> <<>>]

(***************************************************************************)
(* Calls on a structure held by the caller.                                *)
(***************************************************************************)
Init ==
    /\ structure \in QueryStructures
    /\ files = EmptyStructure
    /\ call = NoCall

GetResiduesWithinDistance ==
    /\ call.op = "none"
    /\ \E target_residue \in Targets(structure), distance \in Radii :
          call' = [op |-> "get_residues_within_distance",
                   args |-> [target_residue |-> target_residue, distance |-> distance],
                   out |-> get_residues_within_distance(structure, target_residue, distance),
                   pc |-> "done", trace |-> <<>>]
    /\ UNCHANGED <<structure, files>>

GetResidueByPosition ==
    /\ call.op = "none"
    /\ \E chain_id \in ChainIds, residue_id \in ResidueIds :
          call' = [op |-> "get_residue_by_position",
                   args |-> [chain_id |-> chain_id, residue_id |-> residue_id],
                   out |-> get_residue_by_position(structure, chain_id, residue_id),
                   pc |-> "done", trace |-> <<>>]
    /\ UNCHANGED <<structure, files>>

Next == GetResiduesWithinDistance \/ GetResidueByPosition

Spec == Init /\ [][Next]_vars

\* the residue lookup, over structures of any residues
LookupInit ==
    /\ structure \in LookupStructures
    /\ files = EmptyStructure
    /\ call = NoCall

LookupNext == GetResidueByPosition \/ GetResiduesWithinDistance

LookupSpec == LookupInit /\ [][LookupNext]_vars

(***************************************************************************)
(* Loading a structure.  A string (a path, a file's content, a response    *)
(* body) is a sequence of lines.  A line is an ATOM or HETATM record (the  *)
(* atom's name, its chain, the number of its residue, its coordinates), a  *)
(* MODEL, ENDMDL or END record, or text that is no PDB record.             *)
(***************************************************************************)
NoCoord == <<>>
\* an atom record: the atom name in the residue number 1 of the chain
AtomLine(rec, name, chain) ==
    [rec |-> rec, name |-> name, chain |-> chain, seq |-> 1, coord |-> Origin]
AtomLines ==
    {AtomLine("ATOM", "CA", "A"), AtomLine("ATOM", "CB", "A"),
     AtomLine("ATOM", "CA", "B"),
     AtomLine("HETATM", "CA", "A"), AtomLine("HETATM", "CB", "A")}
\* an atom record whose coordinate columns hold no number
BadAtomLine == [rec |-> "ATOM", name |-> "CA", chain |-> "A", seq |-> 1, coord |-> NoCoord]
ModelLine == [rec |-> "MODEL", name |-> "", chain |-> "", seq |-> 0, coord |-> NoCoord]
EndModelLine == [rec |-> "ENDMDL", name |-> "", chain |-> "", seq |-> 0, coord |-> NoCoord]
EndLine == [rec |-> "END", name |-> "", chain |-> "", seq |-> 0, coord |-> NoCoord]
\* a line that is no PDB record: the name of a file
NameLine == [rec |-> "structure.pdb", name |-> "", chain |-> "", seq |-> 0, coord |-> NoCoord]
Lines == AtomLines \cup {BadAtomLine, ModelLine, EndModelLine, EndLine, NameLine}
Texts == UNION {[1..n -> Lines] : n \in 0..MaxLines}
\* the strings that may name a file
PathStrings == {<<NameLine>>}
\* what a file may hold: nothing, or one line
FileContents == {t \in Texts : Len(t) <= 1}
\* the file systems: some of the paths exist, each with a content
FileSystems == UNION {[D -> FileContents] : D \in SUBSET PathStrings}

\* the residue the structure builder adds atoms to is none yet, or one it
\* could not add to its chain
NoResidue == [model |-> -1, chain |-> "", het |-> "", seq |-> 0]

\* StructureBuilder at the start of the coordinate section: the structure
\* built so far and the names of the atoms of its residues, the id the next
\* model gets, whether a model is open, the chain and the residue id of the
\* last atom record, the residue atoms are added to
NewBuilder ==
    [s |-> EmptyStructure, names |-> EmptyStructure, current_model_id |-> 0,
     model_open |-> FALSE, current_chain_id |-> "", current_residue_id |-> NoValue,
     residue |-> NoResidue]

\* structure_builder.init_model(current_model_id), for a MODEL record or an
\* atom record met while no model is open; the chain and the residue of the
\* last atom record are forgotten
init_model(b) ==
    [b EXCEPT !.current_model_id = @ + 1, !.model_open = TRUE,
              !.current_chain_id = "", !.current_residue_id = NoValue]

\* structure_builder.init_residue: a residue with the id is made in the chain
\* of the open model, or, if the chain has one, that one is taken up again when
\* it is a standard residue (a discontinuous chain) and the new residue stays
\* out of the chain when it is a hetero residue (PDBConstructionException,
\* turned into a warning by the permissive parser)
init_residue(b, key) ==
    IF key \notin DOMAIN b.s
    THEN [b EXCEPT !.s = [k \in DOMAIN b.s \cup {key} |->
                              IF k = key THEN <<>> ELSE b.s[k]],
                   !.names = [k \in DOMAIN b.names \cup {key} |->
                              IF k = key THEN {} ELSE b.names[k]],
                   !.residue = key]
    ELSE IF key.het = " " THEN [b EXCEPT !.residue = key]
    ELSE [b EXCEPT !.residue = NoResidue]

\* structure_builder.init_atom: the atom is added to the residue, unless the
\* residue has an atom of that name (PDBConstructionException, turned into a
\* warning) or stayed out of its chain
init_atom(b, name, coord) ==
    IF b.residue = NoResidue \/ name \in b.names[b.residue] THEN b
    ELSE [b EXCEPT !.s[b.residue] = Append(@, coord),
                   !.names[b.residue] = @ \cup {name}]

\* the builder after an ATOM or HETATM record with coordinates
atom_record(b, l) ==
    LET opened == IF b.model_open THEN b ELSE init_model(b)
        residue_id == [het |-> (IF l.rec = "HETATM" THEN "H" ELSE " "), seq |-> l.seq]
        key == [model |-> opened.current_model_id - 1, chain |-> l.chain,
                het |-> residue_id.het, seq |-> residue_id.seq]
        at == [opened EXCEPT !.current_chain_id = l.chain,
                             !.current_residue_id = residue_id]
    IN  IF opened.current_chain_id = l.chain /\ opened.current_residue_id = residue_id
        THEN init_atom(opened, l.name, l.coord)
        ELSE init_atom(init_residue(at, key), l.name, l.coord)

RECURSIVE ParseLines(_, _)
\* PDBParser._parse_coordinates reading the lines of the coordinate section
\* into the builder b: an atom record opens a model when none is open and adds
\* an atom; coordinates that are no numbers end the parse with
\* PDBConstructionException; MODEL opens a model, ENDMDL closes it, END ends the
\* parse, any other line is skipped
ParseLines(lines, b) ==
    IF lines = <<>> THEN Returned(b.s)
    ELSE LET l == Head(lines)
         IN  IF l.rec \in {"ATOM", "HETATM"}
             THEN IF l.coord = NoCoord THEN Raised("PDBConstructionException")
                  ELSE ParseLines(Tail(lines), atom_record(b, l))
             ELSE IF l.rec = "MODEL"
             THEN ParseLines(Tail(lines), init_model(b))
             ELSE IF l.rec = "ENDMDL"
             THEN ParseLines(Tail(lines),
                             [b EXCEPT !.model_open = FALSE, !.current_chain_id = "",
                                       !.current_residue_id = NoValue])
             ELSE IF l.rec = "END" THEN Returned(b.s)
             ELSE ParseLines(Tail(lines), b)

\* PDBParser._get_header: the lines from the first ATOM, HETATM or MODEL
\* record on (from the last line on when there is no such record); what comes
\* before is the header
coords_trailer(lines) ==
    LET records == {i \in 1..Len(lines) : lines[i].rec \in {"ATOM", "HETATM", "MODEL"}}
        i == IF records = {} THEN Len(lines)
             ELSE CHOOSE j \in records : \A k \in records : j <= k
    IN  SubSeq(lines, i, Len(lines))

\* parser.get_structure(id, handle) on the text read from the handle: a text
\* without a line is refused ("Empty file."), any other text is parsed
get_structure(text) ==
    IF text = <<>> THEN Raised("ValueError")
    ELSE ParseLines(coords_trailer(text), NewBuilder)

\* os.path.isfile(pdb_input)
isfile(fs, pdb_input) == pdb_input \in DOMAIN fs

\* the parser's calls are logged: what was opened (a path) or wrapped (a string)
ParsedFile(path, content) == [ev |-> "parse", from |-> "file", arg |-> path, text |-> content]
ParsedText(text) == [ev |-> "parse", from |-> "text", arg |-> text, text |-> text]
Get(url) == [ev |-> "GET", from |-> "network", arg |-> url, text |-> <<>>]

\* a loader that never looks at the file system
parse_pdb_text_only(fs, pdb_input) ==
    [out |-> get_structure(pdb_input), trace |-> <<ParsedText(pdb_input)>>]

\* parse_pdb_file(pdb_input), on the file system fs
parse_pdb_file(fs, pdb_input) ==
    IF isfile(fs, pdb_input)
    THEN [out |-> get_structure(fs[pdb_input]),
          trace |-> <<ParsedFile(pdb_input, fs[pdb_input])>>]
    ELSE [out |-> get_structure(pdb_input),
          trace |-> <<ParsedText(pdb_input)>>]

PdbIds == {"1abc", "9zzz"}
StatusCodes == {200, 201, 204, 299, 404, 500}
Url(pdb_id) == <<"https://files.rcsb.org/download/", pdb_id, ".pdb">>
\* what requests.get comes back with: a response, or a network failure
Responses ==
    [ok : {TRUE}, status_code : StatusCodes, text : Texts]
    \cup {[ok |-> FALSE, status_code |-> 0, text |-> <<>>]}

\* a fetch that parses whatever body came back
fetch_pdb_unchecked(pdb_id, response) ==
    IF ~response.ok
    THEN [out |-> Raised("ConnectionError"), trace |-> <<Get(Url(pdb_id))>>]
    ELSE [out |-> get_structure(response.text),
          trace |-> <<Get(Url(pdb_id)), ParsedText(response.text)>>]

\* a fetch that accepts every 2xx status
fetch_pdb_by_class(pdb_id, response) ==
    IF ~response.ok
    THEN [out |-> Raised("ConnectionError"), trace |-> <<Get(Url(pdb_id))>>]
    ELSE IF response.status_code < 200 \/ response.status_code > 299
    THEN [out |-> Raised("Exception"), trace |-> <<Get(Url(pdb_id))>>]
    ELSE [out |-> get_structure(response.text),
          trace |-> <<Get(Url(pdb_id)), ParsedText(response.text)>>]

\* fetch_pdb_structure(pdb_id), requests.get(url) coming back with response
fetch_pdb_structure(pdb_id, response) ==
    IF ~response.ok
    THEN \* requests.get raised: the exception propagates
         [out |-> Raised("ConnectionError"), trace |-> <<Get(Url(pdb_id))>>]
    ELSE IF response.status_code # 200
    THEN [out |-> Raised("Exception"), trace |-> <<Get(Url(pdb_id))>>]
    ELSE [out |-> get_structure(response.text),
          trace |-> <<Get(Url(pdb_id)), ParsedText(response.text)>>]

\* what the caller holds after the call: the structure returned, or what it held
Held(s, out) == IF out.status = "returned" THEN out.value ELSE s

LoadInit ==
    /\ structure = EmptyStructure
    /\ files \in FileSystems
    /\ call = NoCall

ParsePdbFile ==
    /\ call.op = "none"
    /\ \E pdb_input \in Texts :
          LET r == parse_pdb_file(files, pdb_input)
          IN  /\ call' = [op |-> "parse_pdb_file",
                          args |-> [pdb_input |-> pdb_input],
                          pc |-> "done", out |-> r.out, trace |-> r.trace]
              /\ structure' = Held(structure, r.out)
    /\ UNCHANGED files

\* fetch_pdb_structure(pdb_id) up to requests.get(url): the GET is sent and the
\* call waits for the server, without a timeout
FetchPdbStructure ==
    /\ call.op = "none"
    /\ \E pdb_id \in PdbIds :
          call' = [op |-> "fetch_pdb_structure", args |-> [pdb_id |-> pdb_id],
                   pc |-> "requests.get", out |-> NoValue,
                   trace |-> <<Get(Url(pdb_id))>>]
    /\ UNCHANGED <<structure, files>>

\* requests.get comes back and fetch_pdb_structure runs to its end: the status
\* check, the parse of the body
RequestsGetReturns ==
    /\ call.op = "fetch_pdb_structure" /\ call.pc = "requests.get"
    /\ \E response \in Responses :
          LET r == fetch_pdb_structure(call.args.pdb_id, response)
          IN  /\ call' = [op |-> "fetch_pdb_structure",
                          args |-> [pdb_id |-> call.args.pdb_id, response |-> response],
                          pc |-> "done", out |-> r.out, trace |-> r.trace]
              /\ structure' = Held(structure, r.out)
    /\ UNCHANGED files

LoadNext == ParsePdbFile \/ FetchPdbStructure \/ RequestsGetReturns

LoadSpec == LoadInit /\ [][LoadNext]_vars

(***************************************************************************)
(* Properties of get_residues_within_distance.  The claims speak of the    *)
(* distance to the centroid; the exact one is computed here over the      *)
(* rationals, without any rounding, next to the one the code computes.     *)
(***************************************************************************)
IsQuery == call.op = "get_residues_within_distance"
QTarget == call.args.target_residue
QRadius == call.args.distance

\* a < b, for two floats of a state
Less(a, b) == ~AtMost(b, a)

RECURSIVE ExactSum(_)
\* the sum of the coordinates cs, exactly
ExactSum(cs) ==
    IF cs = <<>> THEN [i \in 1..3 |-> Zero]
    ELSE LET r == ExactSum(Tail(cs))
             c == Head(cs)
         IN  [i \in 1..3 |-> Sum(c[i], r[i])]

\* n^2 times the squared distance from coord to the centroid sum(cs) / n of the
\* atoms cs (cs not empty), the centroid being the exact mean
DistSqScaled(coord, cs) ==
    LET n == Float(Len(cs), 0)
        sum == ExactSum(cs)
        c == coord
        d == [i \in 1..3 |-> Sum(Product(n, c[i]), Minus(sum[i]))]
    IN  Sum(Sum(Product(d[1], d[1]), Product(d[2], d[2])), Product(d[3], d[3]))

\* n^2 times r^2, exactly
RadiusSqScaled(cs, r) ==
    LET nr == Product(Float(Len(cs), 0), r) IN Product(nr, nr)

\* the atom at coord lies within r of the centroid of cs: distance <= r
WithinOfCentroid(coord, cs, r) == AtMost(DistSqScaled(coord, cs), RadiusSqScaled(cs, r))

\* the atom at coord lies inside r of the centroid of cs: distance < r
InsideOfCentroid(coord, cs, r) == ~AtMost(RadiusSqScaled(cs, r), DistSqScaled(coord, cs))

\* the residues of s owning at least one atom within r of the centroid of cs
ResiduesWithin(s, cs, r) ==
    {ResidueOf(s, k) :
        k \in {x \in DOMAIN s : \E i \in 1..Len(s[x]) : WithinOfCentroid(s[x][i], cs, r)}}

\* the atom at coord lies within r of the centroid of cs as the code computes
\* them: the squared distance from the single precision mean, in double
\* precision, is <= r * r in double precision
WithinAsComputed(coord, cs, r) ==
    AtMost(KDTree_dist(target_center(cs), coord), radius_sq(r))

\* the residues of s owning at least one atom within r, as computed, of the
\* centroid of cs
ResiduesWithinAsComputed(s, cs, r) ==
    {ResidueOf(s, k) :
        k \in {x \in DOMAIN s : \E i \in 1..Len(s[x]) : WithinAsComputed(s[x][i], cs, r)}}

\* C1 (as claimed): a call whose target residue owns no atom fails with
\* InvalidTargetError, and not with the division by zero of the centroid.
C1_ZeroAtomTargetRaisesInvalidTarget ==
    (IsQuery /\ Len(QTarget.atoms) = 0)
        => (call.out.status = "raised" /\ call.out.error = "InvalidTargetError")

\* C2 (as claimed): for a target with at least one atom and a radius r >= 0 the
\* call returns exactly the residues of the structure owning an atom within r
\* (closed) of the target's centroid.
C2_ExactNeighbourSetAnyRadius ==
    (IsQuery /\ Len(QTarget.atoms) >= 1 /\ ~QRadius.neg)
        => (/\ call.out.status = "returned"
            /\ call.out.value = ResiduesWithin(structure, QTarget.atoms, QRadius))

\* C2 (amended): for a structure with at least one atom, a target with at least
\* one atom and a radius r > 0 the call returns exactly the residues of the
\* structure owning an atom whose distance to the target's centroid, as the code
\* computes them (single precision mean, squared distance in double precision),
\* is <= r (closed); no residue returned is absent from the structure.
C2_ExactNeighbourSet ==
    (IsQuery /\ Len(QTarget.atoms) >= 1 /\ Positive(QRadius) /\ get_atoms(structure) # {})
        => (/\ call.out.status = "returned"
            /\ \A r \in call.out.value : r.owner = "S" /\ r.id \in DOMAIN structure
            /\ call.out.value = ResiduesWithinAsComputed(structure, QTarget.atoms, QRadius))

\* C2 witness: a target of three atoms, two of them at less than the radius from
\* the exact centroid; single precision rounds the centroid away from them, and
\* the residue is not returned.
C2_Witness ==
    /\ IsQuery /\ call.out.status = "returned"
    /\ QTarget.owner = "S" /\ Len(QTarget.atoms) = 3 /\ Positive(QRadius)
    /\ \E i \in 1..3 : InsideOfCentroid(QTarget.atoms[i], QTarget.atoms, QRadius)
    /\ QTarget \notin call.out.value
    /\ call.out.value = ResiduesWithinAsComputed(structure, QTarget.atoms, QRadius)

\* C3: monotonicity in the radius: the residues returned at a radius are among
\* those returned, for the same structure and target, at every larger radius.
C3_MonotoneInRadius ==
    (IsQuery /\ call.out.status = "returned")
        => \A r2 \in Radii :
              Less(QRadius, r2) =>
                LET larger == get_residues_within_distance(structure, QTarget, r2)
                IN  larger.status = "returned" /\ call.out.value \subseteq larger.value

\* C3 witness: a call that returned some residue, and a larger radius returning more.
C3_Witness ==
    /\ IsQuery /\ call.out.status = "returned" /\ call.out.value # {}
    /\ \E r2 \in Radii :
          /\ Less(QRadius, r2)
          /\ get_residues_within_distance(structure, QTarget, r2).value # call.out.value

\* every atom of the target lies inside the radius of the target's centroid
CoversOwnAtoms ==
    \A i \in 1..Len(QTarget.atoms) :
        InsideOfCentroid(QTarget.atoms[i], QTarget.atoms, QRadius)
\* some atom of the target lies within the radius of the target's centroid
ReachesOwnAtom ==
    \E i \in 1..Len(QTarget.atoms) :
        WithinOfCentroid(QTarget.atoms[i], QTarget.atoms, QRadius)
\* some atom of the target lies within the radius of the target's centroid as
\* the code computes them
ReachesOwnAtomAsComputed ==
    \E i \in 1..Len(QTarget.atoms) :
        WithinAsComputed(QTarget.atoms[i], QTarget.atoms, QRadius)

\* C7 (as claimed): for a residue R of the structure with at least one atom, the
\* call with radius 0 returns a set containing R.
C7_RadiusZeroContainsTarget ==
    (IsQuery /\ QTarget.owner = "S" /\ Len(QTarget.atoms) >= 1 /\ QRadius = Float(0, 0))
        => (call.out.status = "returned" /\ QTarget \in call.out.value)

\* every atom of the target lies within the radius of the target's centroid as
\* the code computes them
CoversOwnAtomsAsComputed ==
    \A i \in 1..Len(QTarget.atoms) :
        WithinAsComputed(QTarget.atoms[i], QTarget.atoms, QRadius)

\* C7, the covering radius measured from the exact centroid: for a residue R of
\* the structure and a radius r > 0 with each atom of R at less than r from R's
\* centroid, the call returns a set containing R.  It does not hold where r
\* exceeds the distances in the last bits only: the rounded centroid is off the
\* middle of two atoms, and both are beyond r from it.
C7_ExactCoverContainsTarget ==
    (IsQuery /\ QTarget.owner = "S" /\ Len(QTarget.atoms) >= 1
        /\ Positive(QRadius) /\ CoversOwnAtoms)
        => (call.out.status = "returned" /\ QTarget \in call.out.value)

\* C7 (amended): for a residue R of the structure with at least one atom and a
\* radius r > 0 covering R's own atoms (each within r of R's centroid, as the
\* code computes them), the call returns a set containing R.
C7_CoveringRadiusContainsTarget ==
    (IsQuery /\ QTarget.owner = "S" /\ Len(QTarget.atoms) >= 1
        /\ Positive(QRadius) /\ CoversOwnAtomsAsComputed)
        => (call.out.status = "returned" /\ QTarget \in call.out.value)

\* C7 witness: a residue of two atoms apart, a radius 0.5 too small and, here, a
\* radius 1 that covers them, with the residue returned.
C7_Witness ==
    /\ IsQuery /\ QTarget.owner = "S" /\ Len(QTarget.atoms) = 2
    /\ QRadius = Float(1, 0) /\ CoversOwnAtomsAsComputed
    /\ ~WithinAsComputed(QTarget.atoms[1], QTarget.atoms, Float(1, 1))
    /\ QTarget \in call.out.value

\* C8 (as claimed): whichever residue object is the target and whatever the
\* radius, if an atom of the target lies within the radius of the target's
\* centroid, the result contains the target.
C8_SelfInclusionAnyTarget ==
    (IsQuery /\ Len(QTarget.atoms) >= 1 /\ ReachesOwnAtom)
        => (call.out.status = "returned" /\ QTarget \in call.out.value)

\* C8 (amended): if the target is a residue of the structure searched, the radius
\* is > 0 and an atom of the target lies within the radius of the target's
\* centroid as the code computes them (single precision mean, squared distance
\* in double precision), the result contains the target.
C8_SelfInclusion ==
    (IsQuery /\ QTarget.owner = "S" /\ Len(QTarget.atoms) >= 1
        /\ Positive(QRadius) /\ ReachesOwnAtomAsComputed)
        => (call.out.status = "returned" /\ QTarget \in call.out.value)

\* C8 witness: a target of the structure with one atom within the radius and one
\* beyond, returned.
C8_Witness ==
    /\ IsQuery /\ QTarget.owner = "S" /\ Positive(QRadius)
    /\ ReachesOwnAtomAsComputed
    /\ \E i \in 1..Len(QTarget.atoms) :
          ~WithinOfCentroid(QTarget.atoms[i], QTarget.atoms, QRadius)
    /\ QTarget \in call.out.value

(***************************************************************************)
(* Properties of get_residue_by_position.                                  *)
(***************************************************************************)
IsLookup == call.op = "get_residue_by_position"
LChain == call.args.chain_id
LResId == call.args.residue_id

\* the residue key k carries the residue id asked for: the tuple (hetero field,
\* number), or for an integer n the id (" ", n, " ") of a standard residue
HasResidueId(k, residue_id) ==
    /\ k.seq = residue_id.seq
    /\ k.het = (IF residue_id.int THEN " " ELSE residue_id.het)

\* C5: the lookup fails with a KeyError whenever no chain of the structure has
\* the chain id asked for, or no residue of such a chain has the residue id
\* asked for; it returns no residue then.
C5_AbsentKeyRaises ==
    (IsLookup /\ (\/ \A k \in DOMAIN structure : k.chain # LChain
                  \/ \A k \in DOMAIN structure :
                        k.chain = LChain => ~HasResidueId(k, LResId)))
        => (/\ call.out.status = "raised"
            /\ call.out.error = "KeyError"
            /\ call.out.value = NoValue)

\* C5 witness: the chain exists in the first model, the residue id does not
\* exist in it, and the lookup raised.
C5_Witness ==
    /\ IsLookup
    /\ \E k \in DOMAIN structure : k.model = 0 /\ k.chain = LChain
    /\ \A k \in DOMAIN structure : k.chain = LChain => ~HasResidueId(k, LResId)
    /\ call.out.status = "raised"

\* C6 (as claimed): for every (chain id, residue id) pair existing anywhere in the
\* structure, also in a model other than the first, the lookup returns a residue
\* with that chain id and that residue id.
C6_LookupExactAnyModel ==
    (IsLookup /\ \E k \in DOMAIN structure : k.chain = LChain /\ HasResidueId(k, LResId))
        => (/\ call.out.status = "returned"
            /\ call.out.value.id.chain = LChain
            /\ HasResidueId(call.out.value.id, LResId))

\* C6 (amended): for every (chain id, residue id) pair existing in the first
\* model (model 0) of the structure, the lookup returns the residue of the first
\* model with that chain id and that residue id.
C6_LookupExactFirstModel ==
    (IsLookup /\ \E k \in DOMAIN structure :
                    k.model = 0 /\ k.chain = LChain /\ HasResidueId(k, LResId))
        => (/\ call.out.status = "returned"
            /\ call.out.value.owner = "S"
            /\ call.out.value.id \in DOMAIN structure
            /\ call.out.value.id.model = 0
            /\ call.out.value.id.chain = LChain
            /\ HasResidueId(call.out.value.id, LResId))

\* C6 witness: the first model holds two residues of the chain asked for and a
\* ligand with the number asked for; the standard residue is returned.
C6_Witness ==
    /\ IsLookup /\ LResId.int
    /\ call.out.status = "returned"
    /\ call.out.value.id.seq = LResId.seq
    /\ \E k \in DOMAIN structure :
          k.model = 0 /\ k.chain = LChain /\ k.seq # LResId.seq
    /\ \E k \in DOMAIN structure :
          k.model = 0 /\ k.chain = LChain /\ k.seq = LResId.seq /\ k.het = "H"

(***************************************************************************)
(* Properties of parse_pdb_file and fetch_pdb_structure.                   *)
(***************************************************************************)
IsParse == call.op = "parse_pdb_file"
\* a fetch that has come to its end
IsFetch == call.op = "fetch_pdb_structure" /\ call.pc = "done"
\* a fetch waiting for the server
IsWaiting == call.op = "fetch_pdb_structure" /\ call.pc = "requests.get"
Response == call.args.response
ParseEvents == {i \in 1..Len(call.trace) : call.trace[i].ev = "parse"}
GetEvents == {i \in 1..Len(call.trace) : call.trace[i].ev = "GET"}

\* C4: on a response whose status is not 200 the fetch fails with the fetch
\* error (the Exception of the status check) and returns no structure: the body
\* is never parsed and the caller holds what it held.
C4_Non200FailsWithoutParsing ==
    (IsFetch /\ Response.ok /\ Response.status_code # 200)
        => (/\ call.out.status = "raised"
            /\ call.out.error = "Exception"
            /\ call.out.value = NoValue
            /\ ParseEvents = {}
            /\ structure = EmptyStructure)

\* C4 witness: a 404 whose body holds an atom record, and the fetch raised.
C4_Witness ==
    /\ IsFetch /\ Response.ok /\ Response.status_code = 404
    /\ get_structure(Response.text).status = "returned"
    /\ get_structure(Response.text).value # EmptyStructure
    /\ call.out.status = "raised"

\* C9: the loader checks the path first: if a file exists at the input string the
\* structure is parsed from the file's content, otherwise the string itself is
\* parsed as PDB text; exactly one parse happens per call, and its outcome (the
\* structure, or the parser's error on an empty or a malformed text) is the
\* call's.
C9_PathFirstThenText ==
    IsParse =>
        LET input == call.args.pdb_input
        IN  /\ Cardinality(ParseEvents) = 1 /\ Len(call.trace) = 1
            /\ isfile(files, input) =>
                  /\ call.trace[1].from = "file" /\ call.trace[1].arg = input
                  /\ call.trace[1].text = files[input]
                  /\ call.out = get_structure(files[input])
            /\ ~isfile(files, input) =>
                  /\ call.trace[1].from = "text" /\ call.trace[1].arg = input
                  /\ call.trace[1].text = input
                  /\ call.out = get_structure(input)
            /\ call.out.status = "returned" => structure = call.out.value
            /\ call.out.status = "raised" =>
                  /\ call.out.error \in {"ValueError", "PDBConstructionException"}
                  /\ structure = EmptyStructure

\* C9 witness: the input names an existing file holding atom records; the
\* structure returned is the file's, not that of the string itself.
C9_Witness ==
    /\ IsParse /\ isfile(files, call.args.pdb_input)
    /\ call.out.status = "returned"
    /\ call.out.value # EmptyStructure
    /\ call.out # get_structure(call.args.pdb_input)

\* C10 (as claimed): the fetch fails with the fetch error exactly when the status
\* is outside 200..299; for every 2xx status it parses the body and returns the
\* structure, with a single GET.
C10_FailsExactlyOutside2xx ==
    (IsFetch /\ Response.ok)
        => (/\ (call.out.status = "raised")
                  <=> (Response.status_code < 200 \/ Response.status_code > 299)
            /\ call.out.status = "raised" => call.out.error = "Exception"
            /\ call.out.status = "returned" =>
                  call.out = get_structure(Response.text)
            /\ Cardinality(GetEvents) = 1)

\* C10 (amended): the fetch fails with the fetch error exactly when the status is
\* not 200 (a 2xx status other than 200 fails too), the body unparsed; for the
\* status 200 it parses the body as PDB text and the parser's outcome is the
\* call's: the structure, or the parser's error (not the fetch error) on a body
\* it refuses, as it does an empty one; a single GET is issued, to the URL of
\* the id, with no retry, and nothing is parsed or returned while the call
\* waits for the server.
C10_FailsExactlyOutside200 ==
    /\ IsWaiting =>
          /\ call.trace = <<Get(Url(call.args.pdb_id))>>
          /\ call.out = NoValue /\ structure = EmptyStructure
    /\ (IsFetch /\ Response.ok)
        => (/\ (call.out.status = "raised" /\ call.out.error = "Exception")
                  <=> (Response.status_code # 200)
            /\ Response.status_code # 200 => Len(call.trace) = 1
            /\ Response.status_code = 200 =>
                  /\ call.out = get_structure(Response.text)
                  /\ Response.text = <<>> =>
                        call.out.status = "raised" /\ call.out.error = "ValueError"
                  /\ call.out.status = "raised" =>
                        call.out.error \in {"ValueError", "PDBConstructionException"}
                  /\ structure = Held(EmptyStructure, call.out)
                  /\ call.trace = <<Get(Url(call.args.pdb_id)), ParsedText(Response.text)>>
            /\ Cardinality(GetEvents) = 1
            /\ call.trace[1] = Get(Url(call.args.pdb_id)))

\* C10 witness: a 2xx status other than 200, a body holding an atom record, and
\* the fetch raised after its single GET.
C10_Witness ==
    /\ IsFetch /\ Response.ok
    /\ Response.status_code > 200 /\ Response.status_code <= 299
    /\ get_structure(Response.text).status = "returned"
    /\ get_structure(Response.text).value # EmptyStructure
    /\ call.out.status = "raised"
    /\ Cardinality(GetEvents) = 1

====
